---- MODULE Spec2Model ----
(***************************************************************************)
(* A model of bcftools gtcheck (vcfgtcheck.c): option checks, init_data,   *)
(* the per-site comparison loop process_line, the reporter and the         *)
(* distinctive-sites drain.                                                *)
(*                                                                         *)
(* A per-sample value block is a sequence of integers: two encoded allele  *)
(* values for GT, three likelihoods for PL.  C's ptr[k] is ptr[k+1] here.  *)
(***************************************************************************)
EXTENDS Integers, Sequences, FiniteSets, TLC

\* ------------------------------------------------------------------ bounds
\* sites read from the variant source in one run
MaxSites == 2
\* sites read in the single-pair runs of SpecLong
MaxSitesLong == 3
\* samples in the file of the cross-check runs of SpecTri
NSmplTri == 4
\* sites read in the runs of SpecTri
MaxSitesTri == 2
\* sites read in the runs of SpecDS
MaxSitesDS == 2

\* ------------------------------------------------- htslib sentinel values
bcf_int32_missing == -2147483647 - 1
bcf_int32_vector_end == -2147483647
bcf_gt_missing == 0

\* C's ptr[k]
At(ptr, k) == ptr[k + 1]

bcf_gt_is_missing(v) == (v \div 2) = 0
bcf_gt_allele(v) == (v \div 2) - 1

\* ------------------------------------------------------ the Genotype View
HAS_GT(ptr) ==
    /\ ~bcf_gt_is_missing(At(ptr, 0))
    /\ ~bcf_gt_is_missing(At(ptr, 1))
    /\ At(ptr, 1) # bcf_int32_vector_end

HAS_PL(ptr) ==
    /\ At(ptr, 0) # bcf_int32_missing
    /\ At(ptr, 1) # bcf_int32_missing
    /\ At(ptr, 2) # bcf_int32_missing
    /\ At(ptr, 1) # bcf_int32_vector_end
    /\ At(ptr, 2) # bcf_int32_vector_end

MIN_PL(ptr) ==
    IF At(ptr, 0) < At(ptr, 1)
    THEN (IF At(ptr, 0) < At(ptr, 2) THEN At(ptr, 0) ELSE At(ptr, 2))
    ELSE (IF At(ptr, 1) < At(ptr, 2) THEN At(ptr, 1) ELSE At(ptr, 2))

\* the dosage class with equal values resolved to the lower index
DSG_PL_first(ptr) ==
    IF At(ptr, 0) <= At(ptr, 1)
    THEN (IF At(ptr, 0) <= At(ptr, 2) THEN 0 ELSE 2)
    ELSE (IF At(ptr, 1) <= At(ptr, 2) THEN 1 ELSE 2)

DSG_PL(ptr) ==
    IF At(ptr, 0) < At(ptr, 1)
    THEN (IF At(ptr, 0) < At(ptr, 2) THEN 0 ELSE 2)
    ELSE (IF At(ptr, 1) < At(ptr, 2) THEN 1 ELSE 2)

DSG_GT(ptr) ==
    (IF bcf_gt_allele(At(ptr, 0)) # 0 THEN 1 ELSE 0)
    + (IF bcf_gt_allele(At(ptr, 1)) # 0 THEN 1 ELSE 0)

\* --------------------------------------------------- the pair comparators
\* One iteration of each of the eight loops of process_line, as the result
\* it has for the pair: "NoData" (continue before any update), "Mismatch"
\* (ndiff and ncnt incremented) or "Match" (ncnt incremented).

\* explicit pairs, GT against GT
pairs_GT_GT(aptr, bptr, hom_only) ==
    IF ~HAS_GT(aptr) THEN "NoData"
    ELSE IF ~HAS_GT(bptr) THEN "NoData"
    ELSE LET aval == DSG_GT(aptr)
             bval == DSG_GT(bptr)
         IN  IF hom_only /\ bval = 1 THEN "NoData"
             ELSE IF aval # bval THEN "Mismatch" ELSE "Match"

\* explicit pairs, PL against PL
pairs_PL_PL(aptr, bptr, hom_only) ==
    IF ~HAS_PL(aptr) THEN "NoData"
    ELSE IF ~HAS_PL(bptr) THEN "NoData"
    ELSE LET aval == MIN_PL(aptr)
             bval == MIN_PL(bptr)
         IN  IF hom_only /\ At(bptr, 1) = bval THEN "NoData"
             ELSE IF \E k \in 0..2 : At(aptr, k) = aval /\ At(bptr, k) = bval
                  THEN "Match" ELSE "Mismatch"

\* a PL reference compared by its dosage class instead of by its minimum value
pairs_GT_PL_dsg(aptr, bptr, hom_only) ==
    IF ~HAS_GT(aptr) THEN "NoData"
    ELSE IF ~HAS_PL(bptr) THEN "NoData"
    ELSE IF hom_only /\ At(bptr, 1) = MIN_PL(bptr) THEN "NoData"
    ELSE IF DSG_PL(bptr) # DSG_GT(aptr) THEN "Mismatch" ELSE "Match"

\* explicit pairs, GT query against PL reference
pairs_GT_PL(aptr, bptr, hom_only) ==
    IF ~HAS_GT(aptr) THEN "NoData"
    ELSE IF ~HAS_PL(bptr) THEN "NoData"
    ELSE LET aval == DSG_GT(aptr)
             bval == MIN_PL(bptr)
         IN  IF hom_only /\ At(bptr, 1) = bval THEN "NoData"
             ELSE IF At(bptr, aval) # bval THEN "Mismatch" ELSE "Match"

\* explicit pairs, PL query against GT reference
pairs_PL_GT(aptr, bptr, hom_only) ==
    IF ~HAS_PL(aptr) THEN "NoData"
    ELSE IF ~HAS_GT(bptr) THEN "NoData"
    ELSE LET aval == MIN_PL(aptr)
             bval == DSG_GT(bptr)
         IN  IF hom_only /\ bval = 1 THEN "NoData"
             ELSE IF aval # At(aptr, bval) THEN "Mismatch" ELSE "Match"

\* matrix modes, GT against GT, with the test of hom_only left out
matrix_GT_GT_nohom(aptr, bptr, hom_only) ==
    IF ~HAS_GT(aptr) THEN "NoData"
    ELSE IF ~HAS_GT(bptr) THEN "NoData"
    ELSE IF DSG_GT(aptr) # DSG_GT(bptr) THEN "Mismatch" ELSE "Match"

\* matrix modes, GT against GT
matrix_GT_GT(aptr, bptr, hom_only) ==
    IF ~HAS_GT(aptr) THEN "NoData"
    ELSE IF ~HAS_GT(bptr) THEN "NoData"
    ELSE LET aval == DSG_GT(aptr)
             bval == DSG_GT(bptr)
         IN  IF hom_only /\ bval = 1 THEN "NoData"
             ELSE IF aval # bval THEN "Mismatch" ELSE "Match"

\* two triples compared by their dosage classes instead of by the scan of k
matrix_PL_PL_dsg(aptr, bptr, hom_only) ==
    IF ~HAS_PL(aptr) THEN "NoData"
    ELSE IF ~HAS_PL(bptr) THEN "NoData"
    ELSE IF hom_only /\ MIN_PL(bptr) = At(bptr, 1) THEN "NoData"
    ELSE IF DSG_PL(aptr) = DSG_PL(bptr) THEN "Match" ELSE "Mismatch"

\* matrix modes, PL against PL
matrix_PL_PL(aptr, bptr, hom_only) ==
    IF ~HAS_PL(aptr) THEN "NoData"
    ELSE IF ~HAS_PL(bptr) THEN "NoData"
    ELSE LET aval == MIN_PL(aptr)
             bval == MIN_PL(bptr)
         IN  IF hom_only /\ bval = At(bptr, 1) THEN "NoData"
             ELSE IF \E k \in 0..2 : At(aptr, k) = aval /\ At(bptr, k) = bval
                  THEN "Match" ELSE "Mismatch"

\* a PL reference filtered by its dosage class instead of by its middle value
matrix_GT_PL_homdsg(aptr, bptr, hom_only) ==
    IF ~HAS_GT(aptr) THEN "NoData"
    ELSE IF ~HAS_PL(bptr) THEN "NoData"
    ELSE IF hom_only /\ DSG_PL(bptr) = 1 THEN "NoData"
    ELSE IF At(bptr, DSG_GT(aptr)) # MIN_PL(bptr) THEN "Mismatch" ELSE "Match"

\* matrix modes, GT query against PL reference
matrix_GT_PL(aptr, bptr, hom_only) ==
    IF ~HAS_GT(aptr) THEN "NoData"
    ELSE IF ~HAS_PL(bptr) THEN "NoData"
    ELSE LET aval == DSG_GT(aptr)
             bval == MIN_PL(bptr)
         IN  IF hom_only /\ bval = At(bptr, 1) THEN "NoData"
             ELSE IF At(bptr, aval) # bval THEN "Mismatch" ELSE "Match"

\* a PL query compared by its dosage class instead of by its minimum value
matrix_PL_GT_dsg(aptr, bptr, hom_only) ==
    IF ~HAS_PL(aptr) THEN "NoData"
    ELSE IF ~HAS_GT(bptr) THEN "NoData"
    ELSE LET bval == DSG_GT(bptr)
         IN  IF hom_only /\ bval = 1 THEN "NoData"
             ELSE IF DSG_PL(aptr) # bval THEN "Mismatch" ELSE "Match"

\* matrix modes, PL query against GT reference
matrix_PL_GT(aptr, bptr, hom_only) ==
    IF ~HAS_PL(aptr) THEN "NoData"
    ELSE IF ~HAS_GT(bptr) THEN "NoData"
    ELSE LET aval == MIN_PL(aptr)
             bval == DSG_GT(bptr)
         IN  IF hom_only /\ bval = 1 THEN "NoData"
             ELSE IF At(aptr, bval) # aval THEN "Mismatch" ELSE "Match"

\* the dosage class that selects the HWE score on a Match
pairs_hwe_dsg(qry_use_GT, aptr) ==
    IF qry_use_GT THEN DSG_GT(aptr) ELSE DSG_PL(aptr)

matrix_qry_dsg(qry_use_GT, aptr) ==
    IF qry_use_GT THEN DSG_GT(aptr) ELSE DSG_PL(aptr)


\* ------------------------------------------------------------- the state
VARIABLES
    cfg,        \* the options as parsed, and the sample counts of the headers
    pc,         \* where main_vcfgtcheck is
    args,       \* the fields of args_t that init_data sets
    ndiff,      \* args->ndiff, indexed 0..npairs-1
    ncnt,       \* args->ncnt
    hwe_prob,   \* args->hwe_prob (in 1/1000), <<>> when not allocated
    ncmp,       \* args->ncmp
    nlines,     \* lines returned by bcf_sr_next_line so far
    site,       \* the line last returned by the variant source
    bufs,       \* qry_arr and gt_arr after the last process_line
    prev,       \* ndiff, ncnt, hwe_prob before the last process_line
    visits,     \* the per-pair updates of the last process_line, in order
    tally,      \* per pair index: Match and Mismatch results seen so far
    kbs_diff,   \* args->kbs_diff, the set of its set bits
    es,         \* the records pushed to the external sorter, in push order
    order,      \* the records the sorter has still to return, in its order
    order2,     \* the order the sorter returns them in a second, identical run
    drain,      \* kbs_blk, ndiff_tot, iblock of report_distinctive_sites
    dc_out,     \* the DC lines written
    ds_out,     \* the DS lines written
    cq, cr, cres \* a hard call, a likelihood triple and their comparisons

vars == <<cfg, pc, args, ndiff, ncnt, hwe_prob, ncmp, nlines, site, bufs, prev,
          visits, tally, kbs_diff, es, order, order2, drain, dc_out, ds_out,
          cq, cr, cres>>

\* ------------------------------------------------------------- helpers
\* the permutations of 1..n, as sequences
Perms(n) == {f \in [1..n -> 1..n] : \A a, b \in 1..n : a # b => f[a] # f[b]}

cmp_int(a, b) == IF a < b THEN -1 ELSE IF a > b THEN 1 ELSE 0

cmp_pair(a, b) ==
    IF a.iqry < b.iqry THEN -1
    ELSE IF a.iqry > b.iqry THEN 1
    ELSE IF a.igt < b.igt THEN -1
    ELSE IF a.igt > b.igt THEN 1
    ELSE 0

\* qsort of a list whose equal elements are indistinguishable
RECURSIVE InsertInt(_, _)
InsertInt(x, s) ==
    IF s = <<>> THEN <<x>>
    ELSE IF cmp_int(x, Head(s)) <= 0 THEN <<x>> \o s
    ELSE <<Head(s)>> \o InsertInt(x, Tail(s))

RECURSIVE qsort_int(_)
qsort_int(s) == IF s = <<>> THEN <<>> ELSE InsertInt(Head(s), qsort_int(Tail(s)))

RECURSIVE InsertPair(_, _)
InsertPair(x, s) ==
    IF s = <<>> THEN <<x>>
    ELSE IF cmp_pair(x, Head(s)) <= 0 THEN <<x>> \o s
    ELSE <<Head(s)>> \o InsertPair(x, Tail(s))

RECURSIVE qsort_pair(_)
qsort_pair(s) == IF s = <<>> THEN <<>> ELSE InsertPair(Head(s), qsort_pair(Tail(s)))

\* ------------------------------------------------------ option checks
\* main_vcfgtcheck between getopt and init_data: the message of the first
\* throw_and_clean reached, or "ok"
\* the option checks without the one on --homs-only
main_checks_nohom(c) ==
    IF c.pair_samples # <<>> /\ (c.gt_samples # <<>> \/ c.qry_samples # <<>>)
    THEN "pairs_with_samples"
    ELSE IF c.pair_samples # <<>> /\ c.ntop # 0 THEN "pairs_with_ntop"
    ELSE IF c.distinctive_sites[1] # 0 /\ c.pair_samples = <<>> THEN "ds_without_pairs"
    ELSE "ok"

main_checks(c) ==
    IF c.pair_samples # <<>> /\ (c.gt_samples # <<>> \/ c.qry_samples # <<>>)
    THEN "pairs_with_samples"
    ELSE IF c.pair_samples # <<>> /\ c.ntop # 0 THEN "pairs_with_ntop"
    ELSE IF c.distinctive_sites[1] # 0 /\ c.pair_samples = <<>> THEN "ds_without_pairs"
    ELSE IF c.hom_only /\ ~c.gt_fname THEN "homs_without_gt"
    ELSE "ok"

\* -------------------------------------------------------------- init_data
\* which of the four sample/pair branches init_data takes
init_branch(c) ==
    IF c.gt_fname THEN "gt_hdr"
    ELSE IF c.gt_samples # <<>> THEN "gt_samples"
    ELSE IF c.pair_samples # <<>> THEN "pair_samples"
    ELSE "cross_check"

\* the conversion of a double x/d, d > 0, to int: towards zero
double_to_int(x, d) == IF x >= 0 THEN x \div d ELSE 0 - ((0 - x) \div d)

\* the option value always taken as a count
diff_sites_nsites_count(npairs, v) == double_to_int(v[1], v[2])

\* int nsites of diff_sites_init, for the option value v[1]/v[2]
diff_sites_nsites(npairs, v) ==
    IF v[1] <= v[2] THEN double_to_int(npairs * v[1], v[2])
    ELSE double_to_int(v[1], v[2])

\* a cross-check sized by the pairs below the diagonal only
data_npairs_sub(npairs, cross_check, nqry_smpl, ngt_smpl) ==
    IF npairs # 0 THEN npairs
    ELSE IF cross_check THEN (nqry_smpl * (nqry_smpl - 1)) \div 2
    ELSE ngt_smpl * nqry_smpl

\* the number of accumulator slots: the length of the pair list if one was
\* read, else the size computed for the matrix
data_npairs(npairs, cross_check, nqry_smpl, ngt_smpl) ==
    IF npairs # 0 THEN npairs
    ELSE IF cross_check THEN (nqry_smpl * (nqry_smpl + 1)) \div 2
    ELSE ngt_smpl * nqry_smpl

init_data(c) ==
    LET br == init_branch(c)
        qry_use_GT == IF c.qry_use_GT = -1 THEN FALSE ELSE c.qry_use_GT = 1
        gt_use_GT ==
            IF c.gt_fname
            THEN (IF c.gt_use_GT = -1 THEN TRUE ELSE c.gt_use_GT = 1)
            ELSE qry_use_GT
        nqry_smpl == IF c.qry_samples # <<>> THEN Len(c.qry_samples) ELSE c.nsmpl_qry
        qry_smpl == qsort_int(c.qry_samples)
        has_pairs == br = "pair_samples"
        pairs == IF has_pairs THEN qsort_pair(c.pair_samples) ELSE <<>>
        cross_check == br = "cross_check"
        ngt_smpl ==
            CASE br = "gt_hdr" ->
                    IF c.gt_samples # <<>> THEN Len(c.gt_samples) ELSE c.nsmpl_gt
              [] br = "gt_samples" -> Len(c.gt_samples)
              [] br = "pair_samples" -> 0
              [] OTHER -> nqry_smpl
        gt_smpl ==
            CASE br = "gt_hdr" -> qsort_int(c.gt_samples)
              [] br = "gt_samples" -> qsort_int(c.gt_samples)
              [] br = "pair_samples" -> <<>>
              [] OTHER -> qry_smpl
        npairs ==
            data_npairs(IF has_pairs THEN Len(pairs) ELSE 0, cross_check,
                        nqry_smpl, ngt_smpl)
        ds_on == c.distinctive_sites[1] # 0
        nsites == diff_sites_nsites(npairs, c.distinctive_sites)
    IN  [ gt_hdr |-> c.gt_fname,
          qry_use_GT |-> qry_use_GT,
          gt_use_GT |-> gt_use_GT,
          nqry_smpl |-> nqry_smpl,
          ngt_smpl |-> ngt_smpl,
          qry_smpl |-> qry_smpl,
          gt_smpl |-> gt_smpl,
          has_pairs |-> has_pairs,
          pairs |-> pairs,
          cross_check |-> cross_check,
          npairs |-> npairs,
          hom_only |-> c.hom_only,
          calc_hwe_prob |-> c.calc_hwe_prob,
          ntop |-> c.ntop,
          sort_by_hwe |-> c.sort_by_hwe,
          dry_run |-> c.dry_run,
          \* diff_sites_init
          ds_fail |-> ds_on /\ nsites <= 0,
          distinctive_sites |->
              IF ~ds_on THEN 0 ELSE IF nsites > npairs THEN npairs ELSE nsites,
          kbs_on |-> ds_on /\ nsites > 0,
          es_on |-> ds_on /\ nsites > 0 ]

NoArgs == [ npairs |-> 0 ]


\* ----------------------------------------------------------- process_line
\* hwe[0..2] of process_line in 1/1000, for af in 1/1000: -log is tabulated
\* for the allele frequencies the variant source of this model yields
\* (min_af = 1e-3): -log(1e-6) = 13.816, -log(2*0.001*0.999) = 6.216,
\* -log(0.25) = 1.386, -log(0.5) = 0.693, -log(1) = 0
hwe_of(af) ==
    << IF af > 1 THEN (IF af = 500 THEN 1386 ELSE 0) ELSE 13816,
       IF af > 1 /\ af < 999 THEN 693 ELSE 6216,
       IF af < 999 THEN (IF af = 500 THEN 1386 ELSE 0) ELSE 13816 >>

\* ndiff[i]++ in the else branch with ncnt[i]++
count_update_else(d, c, res) ==
    IF res = "Mismatch" THEN <<d + 1, c>>
    ELSE IF res = "Match" THEN <<d, c + 1>>
    ELSE <<d, c>>

\* what one loop iteration does to ndiff[i] and ncnt[i]
count_update(d, c, res) ==
    IF res = "Mismatch" THEN <<d + 1, c + 1>>
    ELSE IF res = "Match" THEN <<d, c + 1>>
    ELSE <<d, c>>

\* the score added at every compared pair, Match or Mismatch
hwe_update_any(h, res, calc_hwe_prob, hwe, dsg) ==
    IF res # "NoData" /\ calc_hwe_prob THEN h + At(hwe, dsg) ELSE h

\* what one loop iteration does to hwe_prob[i]
hwe_update(h, res, calc_hwe_prob, hwe, dsg) ==
    IF res = "Match" /\ calc_hwe_prob THEN h + At(hwe, dsg) ELSE h

\* the accumulators after one loop iteration with result res at index idx
accumulate(st, a, idx, res, hwe, dsg, i, j) ==
    LET dc == count_update(st.ndiff[idx], st.ncnt[idx], res)
    IN  [ st EXCEPT
            !.ndiff = [@ EXCEPT ![idx] = dc[1]],
            !.ncnt = [@ EXCEPT ![idx] = dc[2]],
            !.hwe_prob =
                IF a.calc_hwe_prob
                THEN [@ EXCEPT ![idx] = hwe_update(@, res, TRUE, hwe, dsg)]
                ELSE @,
            !.visits = Append(@, [ i |-> i, j |-> j, idx |-> idx, res |-> res,
                                   ndiff |-> dc[1], ncnt |-> dc[2] ]) ]

\* the comparison of the explicit-pairs loop selected by the two tags
pairs_cmp(a, aptr, bptr) ==
    IF a.qry_use_GT /\ a.gt_use_GT THEN pairs_GT_GT(aptr, bptr, a.hom_only)
    ELSE IF ~a.qry_use_GT /\ ~a.gt_use_GT THEN pairs_PL_PL(aptr, bptr, a.hom_only)
    ELSE IF a.qry_use_GT THEN pairs_GT_PL(aptr, bptr, a.hom_only)
    ELSE pairs_PL_GT(aptr, bptr, a.hom_only)

\* the comparison of the matrix loop selected by the two tags
matrix_cmp(a, aptr, bptr) ==
    IF a.qry_use_GT /\ a.gt_use_GT THEN matrix_GT_GT(aptr, bptr, a.hom_only)
    ELSE IF ~a.qry_use_GT /\ ~a.gt_use_GT THEN matrix_PL_PL(aptr, bptr, a.hom_only)
    ELSE IF a.qry_use_GT THEN matrix_GT_PL(aptr, bptr, a.hom_only)
    ELSE matrix_PL_GT(aptr, bptr, a.hom_only)

\* one iteration of the loop over the explicit pairs
pairs_step(st, a, hwe, i) ==
    LET aptr == At(st.qarr, At(a.pairs, i).iqry)
        bptr == At(st.garr, At(a.pairs, i).igt)
        res == pairs_cmp(a, aptr, bptr)
        acc == accumulate(st, a, i, res, hwe, pairs_hwe_dsg(a.qry_use_GT, aptr), i, 0)
    IN  IF res = "Mismatch" /\ a.kbs_on
        THEN [acc EXCEPT !.nd = @ + 1, !.kbs = @ \cup {i}]
        ELSE acc

RECURSIVE pairs_loop(_, _, _, _)
pairs_loop(st, a, hwe, i) ==
    IF i >= a.npairs THEN st
    ELSE pairs_loop(pairs_step(st, a, hwe, i), a, hwe, i + 1)

\* idx += 1 for a skipped row
matrix_skip_row_one(idx, ngt) == idx + 1

\* idx after a row whose query sample has no data
matrix_skip_row(idx, ngt) == idx + ngt

has_block(use_GT, ptr) == IF use_GT THEN HAS_GT(ptr) ELSE HAS_PL(ptr)

\* a reference block without data left as it was read
matrix_mark_none(use_GT, ptr) == ptr

\* bptr[0] = bcf_gt_missing, or bcf_int32_missing, for a reference block
\* without data
matrix_mark_missing(use_GT, ptr) ==
    [ptr EXCEPT ![1] = IF use_GT THEN bcf_gt_missing ELSE bcf_int32_missing]

\* one iteration of the inner loop of the matrix modes
matrix_step(st, a, hwe, i, j, aptr) ==
    LET igt == IF a.gt_smpl # <<>> THEN At(a.gt_smpl, j) ELSE j
        bptr == At(st.garr, igt)
    IN  IF ~has_block(a.gt_use_GT, bptr)
        THEN \* idx++; bptr[0] = missing; continue
             LET garr == [st.garr EXCEPT ![igt + 1] = matrix_mark_missing(a.gt_use_GT, @)]
             IN  [ st EXCEPT !.idx = @ + 1,
                             !.garr = garr,
                             !.qarr = IF a.gt_hdr THEN @ ELSE garr ]
        ELSE LET res == matrix_cmp(a, aptr, bptr)
                 acc == accumulate(st, a, st.idx, res, hwe,
                                   matrix_qry_dsg(a.qry_use_GT, aptr), i, j)
             IN  [acc EXCEPT !.idx = @ + 1]

RECURSIVE matrix_inner(_, _, _, _, _, _, _)
matrix_inner(st, a, hwe, i, j, ngt, aptr) ==
    IF j >= ngt THEN st
    ELSE matrix_inner(matrix_step(st, a, hwe, i, j, aptr), a, hwe, i, j + 1, ngt, aptr)

RECURSIVE matrix_loop(_, _, _, _)
matrix_loop(st, a, hwe, i) ==
    IF i >= a.nqry_smpl THEN st
    ELSE LET iqry == IF a.qry_smpl # <<>> THEN At(a.qry_smpl, i) ELSE i
             ngt == IF a.cross_check THEN i ELSE a.ngt_smpl
             aptr == At(st.qarr, iqry)
         IN  IF ~has_block(a.qry_use_GT, aptr)
             THEN matrix_loop([st EXCEPT !.idx = matrix_skip_row(@, ngt)], a, hwe, i + 1)
             ELSE matrix_loop(matrix_inner(st, a, hwe, i, 0, ngt, aptr), a, hwe, i + 1)

\* the tests on the query arrays alone
shape_ok_qry(c, a, s) ==
    /\ s.nqry1 > 0
    /\ s.nqry1 = (IF a.qry_use_GT THEN 2 ELSE 3) * c.nsmpl_qry

\* whether process_line gets to args->ncmp++ (it returns before if a tag is
\* absent or the values per sample are not 2 for GT, 3 for PL)
shape_ok(c, a, s) ==
    /\ s.nqry1 > 0
    /\ s.nqry1 = (IF a.qry_use_GT THEN 2 ELSE 3) * c.nsmpl_qry
    /\ a.gt_hdr => /\ s.ngt1 > 0
                   /\ s.ngt1 = (IF a.gt_use_GT THEN 2 ELSE 3) * c.nsmpl_gt

\* the bitset of the line before left as it is
diff_sites_reset_keep(on, kbs) == kbs

\* if ( args->kbs_diff ) diff_sites_reset(args), in the loop over the pair
\* list: kbs_clear
diff_sites_reset(on, kbs) == IF on THEN {} ELSE kbs

\* process_line from args->ncmp++ on: the accumulators, the site's bitset
\* and the buffers after it
process_line(a, s, nd0, nc0, hw0, kbs0) ==
    LET st0 == [ ndiff |-> nd0, ncnt |-> nc0, hwe_prob |-> hw0,
                 kbs |-> diff_sites_reset(a.has_pairs /\ a.kbs_on, kbs0),
                 nd |-> 0, idx |-> 0,
                 qarr |-> s.qry_arr,
                 garr |-> IF a.gt_hdr THEN s.gt_arr ELSE s.qry_arr,
                 visits |-> <<>> ]
        hwe == hwe_of(s.af)
    IN  IF a.has_pairs THEN pairs_loop(st0, a, hwe, 0)
        ELSE matrix_loop(st0, a, hwe, 0)

\* the record diff_sites_push hands to the sorter
diff_sites_push(nd, rid, pos, rnd, kbs) ==
    [ ndiff |-> nd, rid |-> rid, pos |-> pos, rand |-> rnd, kbs |-> kbs ]


\* ------------------------------------------------------------------ report
\* one DC line: the query and the genotyped sample (as header indices), the
\* accumulator index read, and the three numbers printed
dc_line(a, nd, nc, hw, iqry, igt, idx) ==
    [ iqry |-> iqry, igt |-> igt, idx |-> idx,
      ndiff |-> nd[idx],
      hwe |-> IF a.calc_hwe_prob THEN hw[idx] ELSE 0,
      ncnt |-> nc[idx] ]

\* int trim of report
report_trim(a) ==
    IF a.has_pairs THEN a.ntop
    ELSE IF a.ngt_smpl = 0 /\ a.nqry_smpl <= a.ntop THEN 0
    ELSE IF a.ngt_smpl # 0 /\ a.ngt_smpl <= a.ntop THEN 0
    ELSE a.ntop

\* the loop over args->pairs
report_pairs(a, nd, nc, hw) ==
    [ i \in 1..a.npairs |->
        dc_line(a, nd, nc, hw, a.pairs[i].iqry, a.pairs[i].igt, i - 1) ]

\* the loops of the untrimmed matrix report, from row i with running idx
RECURSIVE report_all(_, _, _, _, _, _)
report_all(a, nd, nc, hw, i, idx) ==
    IF i >= a.nqry_smpl THEN <<>>
    ELSE LET iqry == IF a.qry_smpl # <<>> THEN At(a.qry_smpl, i) ELSE i
             ngt == IF a.cross_check THEN i ELSE a.ngt_smpl
             row == [ j \in 1..ngt |->
                        dc_line(a, nd, nc, hw, iqry,
                                IF a.gt_smpl # <<>> THEN a.gt_smpl[j] ELSE j - 1,
                                idx + j - 1) ]
         IN  row \o report_all(a, nd, nc, hw, i + 1, idx + ngt)

\* arr[].val as a fraction <<numerator, denominator>>
idbl_val(a, nd, nc, hw, idx) ==
    IF a.sort_by_hwe THEN << -hw[idx], 1 >>
    ELSE IF nc[idx] # 0 THEN << nd[idx], nc[idx] >>
    ELSE << 0, 1 >>

cmp_idbl(x, y) ==
    IF x.val[1] * y.val[2] < y.val[1] * x.val[2] THEN -1
    ELSE IF x.val[1] * y.val[2] > y.val[1] * x.val[2] THEN 1
    ELSE 0

\* the arrays qsort may leave for arr under cmp_idbl (ties in any order)
qsort_idbl(arr) ==
    LET n == Len(arr)
    IN  { [ t \in 1..n |-> arr[p[t]] ] :
            p \in { q \in Perms(n) :
                      \A t \in 1..n, u \in 1..n :
                          t < u => cmp_idbl(arr[q[t]], arr[q[u]]) <= 0 } }

\* arr of query row i in the two-file top-K report
topk_rect_arr(a, nd, nc, hw, i) ==
    [ j \in 1..a.ngt_smpl |->
        LET idx == i * a.ngt_smpl + (j - 1)
        IN  [ val |-> idbl_val(a, nd, nc, hw, idx), ism |-> j - 1, idx |-> idx ] ]

\* the lines of query row i in the two-file top-K report, for a sorted arr
topk_rect_lines(a, nd, nc, hw, i, arr) ==
    LET iqry == IF a.qry_smpl # <<>> THEN At(a.qry_smpl, i) ELSE i
    IN  [ j \in 1..a.ntop |->
            dc_line(a, nd, nc, hw, iqry,
                    IF a.gt_smpl # <<>> THEN At(a.gt_smpl, arr[j].ism) ELSE arr[j].ism,
                    arr[j].idx) ]

\* arr of query row i in the cross-check top-K report
topk_cross_arr(a, nd, nc, hw, i) ==
    [ k \in 1..(a.nqry_smpl - 1) |->
        LET j == k - 1
        IN  IF j < i
            THEN LET idx == (i * (i - 1)) \div 2 + j
                 IN  [ val |-> idbl_val(a, nd, nc, hw, idx), ism |-> j, idx |-> idx ]
            ELSE LET idx == (j * (j + 1)) \div 2 + i
                 IN  [ val |-> idbl_val(a, nd, nc, hw, idx), ism |-> j + 1, idx |-> idx ] ]

\* the lines of query row i in the cross-check top-K report, for a sorted arr
topk_cross_lines(a, nd, nc, hw, i, arr) ==
    LET iqry == IF a.qry_smpl # <<>> THEN At(a.qry_smpl, i) ELSE i
        kept == SelectSeq([ j \in 1..a.ntop |-> arr[j] ], LAMBDA e : ~(i <= e.ism))
    IN  [ j \in 1..Len(kept) |->
            dc_line(a, nd, nc, hw, iqry,
                    IF a.qry_smpl # <<>> THEN At(a.qry_smpl, kept[j].ism) ELSE kept[j].ism,
                    kept[j].idx) ]

\* the outputs the top-K report can produce from query row i on
RECURSIVE report_topk(_, _, _, _, _)
report_topk(a, nd, nc, hw, i) ==
    IF i >= a.nqry_smpl THEN { <<>> }
    ELSE LET rows ==
                 IF ~a.cross_check
                 THEN { topk_rect_lines(a, nd, nc, hw, i, arr) :
                          arr \in qsort_idbl(topk_rect_arr(a, nd, nc, hw, i)) }
                 ELSE { topk_cross_lines(a, nd, nc, hw, i, arr) :
                          arr \in qsort_idbl(topk_cross_arr(a, nd, nc, hw, i)) }
         IN  { r \o rest : r \in rows, rest \in report_topk(a, nd, nc, hw, i + 1) }

\* whether the top-K report reads hwe_prob although it was never allocated
report_null_hwe(a) ==
    ~a.has_pairs /\ report_trim(a) # 0 /\ a.sort_by_hwe /\ ~a.calc_hwe_prob

\* the DC sections report can write
report(a, nd, nc, hw) ==
    IF a.has_pairs THEN { report_pairs(a, nd, nc, hw) }
    ELSE IF report_trim(a) = 0 THEN { report_all(a, nd, nc, hw, 0, 0) }
    ELSE report_topk(a, nd, nc, hw, 0)

\* ------------------------------------------------ report_distinctive_sites
\* an exit that leaves the sorter as it is
throw_and_clean_keep(es_alloc, recs) == recs

\* the records the sorter holds after throw_and_clean: none if args->es was
\* allocated (extsort_destroy), else it never held any
throw_and_clean(es_alloc, recs) == IF es_alloc THEN <<>> ELSE recs

\* the comparison without its two lines on rand
diff_sites_cmp_norand(x, y) ==
    IF x.ndiff < y.ndiff THEN 1
    ELSE IF x.ndiff > y.ndiff THEN -1
    ELSE 0

diff_sites_cmp(x, y) ==
    IF x.ndiff < y.ndiff THEN 1
    ELSE IF x.ndiff > y.ndiff THEN -1
    ELSE IF x.rand < y.rand THEN -1
    ELSE IF x.rand > y.rand THEN 1
    ELSE 0

\* the orders in which the external sorter may return the records pushed:
\* every order that diff_sites_cmp does not contradict
extsort_sort(recs) ==
    LET n == Len(recs)
    IN  { [ t \in 1..n |-> recs[p[t]] ] :
            p \in { q \in Perms(n) :
                      \A t \in 1..n, u \in 1..n :
                          t < u => diff_sites_cmp(recs[q[t]], recs[q[u]]) <= 0 } }

\* the block is closed when the total exceeds the minimum
block_open_le(ndiff_tot, ndiff_min) == ndiff_tot <= ndiff_min

\* if ( ndiff_tot < ndiff_min ) continue
block_open(ndiff_tot, ndiff_min) == ndiff_tot < ndiff_min

\* a site that distinguishes no new pair still writes its line
ds_skip_never(ndiff_new) == FALSE

\* if ( !ndiff_new ) continue
ds_skip(ndiff_new) == ndiff_new = 0

\* every pair of the record counted, also those the block has already
ds_count_all(kbs, kbs_blk) == Cardinality(kbs)

\* ndiff_new: the pairs of the record that kbs_blk does not have yet
ds_count_new(kbs, kbs_blk) == Cardinality(kbs \ kbs_blk)

\* one iteration of the while loop of report_distinctive_sites, for the
\* record rec returned by diff_sites_shift
ds_step(d, rec, ndiff_min) ==
    LET new == rec.kbs \ d.kbs_blk
        kbs_blk == d.kbs_blk \cup rec.kbs
        ndiff_dbg == Cardinality(rec.kbs)
        ndiff_new == ds_count_new(rec.kbs, d.kbs_blk)
        ndiff_tot == d.ndiff_tot + ndiff_new
        line == [ rid |-> rec.rid, pos |-> rec.pos + 1, tot |-> ndiff_tot,
                  iblock |-> d.iblock, new |-> new ]
    IN  IF ndiff_dbg # rec.ndiff
        THEN [ d EXCEPT !.kbs_blk = kbs_blk, !.corrupt = TRUE, !.line = <<>> ]
        ELSE IF ds_skip(ndiff_new)
        THEN [ d EXCEPT !.kbs_blk = kbs_blk, !.line = <<>> ]
        ELSE IF block_open(ndiff_tot, ndiff_min)
        THEN [ d EXCEPT !.kbs_blk = kbs_blk, !.ndiff_tot = ndiff_tot, !.line = <<line>> ]
        ELSE [ d EXCEPT !.kbs_blk = {}, !.ndiff_tot = 0, !.iblock = @ + 1,
                        !.line = <<line>> ]

Drain0 == [ kbs_blk |-> {}, ndiff_tot |-> 0, iblock |-> 0, corrupt |-> FALSE,
            line |-> <<>> ]

\* the DS lines of a whole drain of the records recs, in that order
RECURSIVE ds_lines(_, _, _)
ds_lines(d, recs, ndiff_min) ==
    IF recs = <<>> THEN <<>>
    ELSE LET d1 == ds_step(d, Head(recs), ndiff_min)
         IN  IF d1.corrupt THEN <<>>
             ELSE d1.line \o ds_lines(d1, Tail(recs), ndiff_min)


\* ------------------------------------------------- the variant source
\* GT blocks as bcf_get_genotypes returns them: allele a unphased is 2(a+1)
gt_00 == <<2, 2>>
gt_01 == <<2, 4>>
gt_11 == <<4, 4>>
gt_12 == <<4, 6>>
gt_miss == <<0, 0>>
gt_half == <<2, 0>>
gt_hap == <<2, bcf_int32_vector_end>>

pl_0 == <<0, 3, 6>>
pl_1 == <<3, 0, 6>>
pl_2 == <<6, 3, 0>>
pl_tie01 == <<0, 0, 5>>
pl_miss == <<bcf_int32_missing, bcf_int32_missing, bcf_int32_missing>>
pl_end == <<0, 3, bcf_int32_vector_end>>

\* the blocks of the runs of Spec, of SpecLong and SpecTri, and of SpecCmp
GTVals == {gt_00, gt_01, gt_miss}
PLVals == {pl_0, pl_1, pl_miss}
GTValsLong == {gt_00, gt_01, gt_11, gt_hap}
PLValsLong == {pl_0, pl_2, pl_tie01, pl_end}
GTValsDS == {gt_00, gt_01, gt_11}
GTValsAll == {gt_00, gt_01, gt_11, gt_12, gt_miss, gt_half, gt_hap}
PLValsAll == [1..3 -> {0, 3, 6}] \cup {pl_tie01, pl_miss, pl_end}
AFVals == {500}
AFValsLong == {0, 500}
RandVals == {0, 1}

\* the lines bcf_sr_next_line can return to a run with options c
Sites(c, a, GTV, PLV, AFV) ==
    LET QV == IF a.qry_use_GT THEN GTV ELSE PLV
        GV == IF a.gt_use_GT THEN GTV ELSE PLV
        qw == IF a.qry_use_GT THEN 2 ELSE 3
        gw == IF a.gt_use_GT THEN 2 ELSE 3
        q0 == [k \in 1..c.nsmpl_qry |-> CHOOSE v \in QV : TRUE]
        g0 == IF a.gt_hdr THEN [k \in 1..c.nsmpl_gt |-> CHOOSE v \in GV : TRUE] ELSE <<>>
        ok == [ ret : {IF a.gt_hdr THEN 2 ELSE 1},
                nqry1 : {qw * c.nsmpl_qry},
                ngt1 : {IF a.gt_hdr THEN gw * c.nsmpl_gt ELSE 0},
                qry_arr : [1..c.nsmpl_qry -> QV],
                gt_arr : IF a.gt_hdr THEN [1..c.nsmpl_gt -> GV] ELSE {<<>>},
                af : IF a.calc_hwe_prob THEN AFV ELSE {500},
                rid : {0}, pos : {0}, rand : {0} ]
        bad == [ ret : {1, 2},
                 nqry1 : {-1, c.nsmpl_qry, qw * c.nsmpl_qry},
                 ngt1 : IF a.gt_hdr THEN {-1, c.nsmpl_gt, gw * c.nsmpl_gt} ELSE {0},
                 qry_arr : {q0}, gt_arr : {g0}, af : {500},
                 rid : {0}, pos : {0}, rand : {0} ]
    IN  ok \cup { s \in bad : \/ s.nqry1 # qw * c.nsmpl_qry
                              \/ a.gt_hdr /\ (s.ret # 2 \/ s.ngt1 # gw * c.nsmpl_gt) }

\* the pairs a run compares at each site, each with the index of its
\* accumulators: <<index, query sample, genotyped sample>>
PairIndex(a, i, j) ==
    IF a.cross_check THEN (i * (i - 1)) \div 2 + j ELSE i * a.ngt_smpl + j

IndexedPairs(a) ==
    IF a.has_pairs
    THEN { <<i - 1, a.pairs[i].iqry, a.pairs[i].igt>> : i \in 1..a.npairs }
    ELSE { <<PairIndex(a, e[1], e[2]),
             IF a.qry_smpl # <<>> THEN At(a.qry_smpl, e[1]) ELSE e[1],
             IF a.gt_smpl # <<>> THEN At(a.gt_smpl, e[2]) ELSE e[2]>> :
             e \in { f \in (0..(a.nqry_smpl - 1)) \X (0..(a.ngt_smpl - 1)) :
                        a.cross_check => f[2] < f[1] } }

\* the blocks of a pair's two samples in the line s
QryBlock(s, iqry) == At(s.qry_arr, iqry)
RefBlock(a, s, igt) == IF a.gt_hdr THEN At(s.gt_arr, igt) ELSE At(s.qry_arr, igt)

\* the comparator's result for the pair at the line s
SiteResult(a, s, iqry, igt) ==
    IF a.has_pairs THEN pairs_cmp(a, QryBlock(s, iqry), RefBlock(a, s, igt))
    ELSE matrix_cmp(a, QryBlock(s, iqry), RefBlock(a, s, igt))

\* the tally after the line s: per index, the Match and the Mismatch results
tally_add(t, a, s) ==
    [ p \in DOMAIN t |->
        [ m |-> t[p].m + Cardinality({ e \in IndexedPairs(a) :
                    e[1] = p /\ SiteResult(a, s, e[2], e[3]) = "Match" }),
          x |-> t[p].x + Cardinality({ e \in IndexedPairs(a) :
                    e[1] = p /\ SiteResult(a, s, e[2], e[3]) = "Mismatch" }) ] ]

\* ---------------------------------------------------------------- actions
NoCfg == [ nsmpl_qry |-> 0 ]
NoSite == [ ret |-> 0 ]

InitRun(C) ==
    /\ cfg \in C
    /\ pc = "main"
    /\ args = NoArgs
    /\ ndiff = <<>> /\ ncnt = <<>> /\ hwe_prob = <<>>
    /\ ncmp = 0 /\ nlines = 0
    /\ site = NoSite
    /\ bufs = <<>>
    /\ prev = <<>>
    /\ visits = <<>>
    /\ tally = <<>>
    /\ kbs_diff = {}
    /\ es = <<>> /\ order = <<>> /\ order2 = <<>>
    /\ drain = Drain0
    /\ dc_out = <<>> /\ ds_out = <<>>
    /\ cq = <<>> /\ cr = <<>> /\ cres = <<>>

\* main_vcfgtcheck from the end of getopt to the call of init_data
ParseArgs ==
    /\ pc = "main"
    /\ pc' = IF main_checks(cfg) = "ok" THEN "init" ELSE "error"
    /\ UNCHANGED <<cfg, args, ndiff, ncnt, hwe_prob, ncmp, nlines, site, bufs, prev,
                   visits, tally, kbs_diff, es, order, order2, drain, dc_out,
                   ds_out, cq, cr, cres>>

\* init_data: the samples or pairs, the accumulators, diff_sites_init
InitData ==
    /\ pc = "init"
    /\ \E a \in {init_data(cfg)} :
       LET zero == [p \in 0..(a.npairs - 1) |-> 0]
       IN  /\ args' = a
           /\ ndiff' = zero
           /\ ncnt' = zero
           /\ hwe_prob' = IF a.calc_hwe_prob THEN zero ELSE <<>>
           /\ tally' = [p \in 0..(a.npairs - 1) |-> [m |-> 0, x |-> 0]]
           /\ prev' = [ndiff |-> zero, ncnt |-> zero,
                       hwe_prob |-> IF a.calc_hwe_prob THEN zero ELSE <<>>]
           /\ pc' = IF a.ds_fail THEN "error" ELSE "stream"
    /\ UNCHANGED <<cfg, ncmp, nlines, site, bufs, visits, kbs_diff, es, order,
                   order2, drain, dc_out, ds_out, cq, cr, cres>>

\* one iteration of the while loop of main_vcfgtcheck: a line is read and,
\* unless the two files do not both have it, process_line is called
NextLine(GTV, PLV, AFV, RV, maxSites) ==
    /\ pc = "stream"
    /\ nlines < maxSites
    /\ nlines' = nlines + 1
    /\ prev' = [ndiff |-> ndiff, ncnt |-> ncnt, hwe_prob |-> hwe_prob]
    /\ \E s0 \in Sites(cfg, args, GTV, PLV, AFV) :
         LET s == [s0 EXCEPT !.pos = nlines]
         IN  IF (args.gt_hdr /\ s.ret # 2) \/ ~shape_ok(cfg, args, s)
             THEN /\ site' = s
                  /\ bufs' = [qry_arr |-> s.qry_arr, gt_arr |-> s.gt_arr]
                  /\ visits' = <<>>
                  /\ UNCHANGED <<ndiff, ncnt, hwe_prob, ncmp, tally, kbs_diff, es, pc>>
             ELSE \E r \in {process_line(args, s, ndiff, ncnt, hwe_prob, kbs_diff)} :
                  LET push == args.has_pairs /\ r.nd # 0
                  IN  \E rnd \in (IF push THEN RV ELSE {0}) :
                        /\ site' = [s EXCEPT !.rand = rnd]
                        /\ bufs' = [qry_arr |-> r.qarr,
                                    gt_arr |-> IF args.gt_hdr THEN r.garr ELSE <<>>]
                        /\ visits' = r.visits
                        /\ ndiff' = r.ndiff
                        /\ ncnt' = r.ncnt
                        /\ hwe_prob' = r.hwe_prob
                        /\ tally' = tally_add(tally, args, s)
                        /\ kbs_diff' = r.kbs
                        /\ es' = IF push
                                 THEN Append(es, diff_sites_push(r.nd, s.rid, s.pos, rnd, r.kbs))
                                 ELSE es
                        /\ ncmp' = ncmp + 1
                        /\ pc' = IF args.dry_run /\ ncmp + 1 = 1 THEN "finish" ELSE "stream"
    /\ UNCHANGED <<cfg, args, order, order2, drain, dc_out, ds_out, cq, cr, cres>>

\* the variant source is exhausted (or --dry-run left the loop): report
Report ==
    /\ pc \in {"stream", "finish"}
    /\ IF args.dry_run
       THEN pc' = "done" /\ dc_out' = dc_out
       ELSE IF report_null_hwe(args)
       THEN pc' = "segv" /\ dc_out' = dc_out
       ELSE /\ \E out \in report(args, ndiff, ncnt, hwe_prob) : dc_out' = out
            /\ pc' = IF args.distinctive_sites # 0 THEN "sort" ELSE "done"
    /\ UNCHANGED <<cfg, args, ndiff, ncnt, hwe_prob, ncmp, nlines, site, bufs, prev,
                   visits, tally, kbs_diff, es, order, order2, drain, ds_out,
                   cq, cr, cres>>

\* extsort_sort at the start of report_distinctive_sites
ExtsortSort ==
    /\ pc = "sort"
    /\ order' \in extsort_sort(es)
    /\ order2' \in extsort_sort(es)
    /\ drain' = Drain0
    /\ pc' = "drain"
    /\ UNCHANGED <<cfg, args, ndiff, ncnt, hwe_prob, ncmp, nlines, site, bufs, prev,
                   visits, tally, kbs_diff, es, dc_out, ds_out, cq, cr, cres>>

\* one iteration of the while loop of report_distinctive_sites, or its end
DiffSitesShift ==
    /\ pc = "drain"
    /\ IF order = <<>>
       THEN /\ pc' = "done"
            /\ UNCHANGED <<order, drain, ds_out, kbs_diff, es>>
       ELSE \E d \in {ds_step(drain, Head(order), args.distinctive_sites)} :
                /\ kbs_diff' = Head(order).kbs
                /\ drain' = d
                /\ ds_out' = ds_out \o d.line
                /\ IF d.corrupt
                   THEN /\ order' = throw_and_clean(args.es_on, Tail(order))
                        /\ es' = throw_and_clean(args.es_on, es)
                        /\ pc' = "error"
                   ELSE /\ order' = Tail(order)
                        /\ es' = es
                        /\ pc' = "drain"
    /\ UNCHANGED <<cfg, args, ndiff, ncnt, hwe_prob, ncmp, nlines, site, bufs, prev,
                   visits, tally, order2, dc_out, cq, cr, cres>>

\* a record held by the sorter is damaged in its scratch storage before the
\* drain: some bits of its bitset change
CorruptRecord ==
    /\ pc = "sort"
    /\ \E k \in 1..Len(es) :
         \E b \in SUBSET (0..(args.npairs - 1)) :
            /\ Cardinality(es[k].kbs) = es[k].ndiff
            /\ b # es[k].kbs
            /\ es' = [es EXCEPT ![k].kbs = b]
    /\ UNCHANGED <<cfg, pc, args, ndiff, ncnt, hwe_prob, ncmp, nlines, site, bufs,
                   prev, visits, tally, kbs_diff, order, order2, drain, dc_out,
                   ds_out, cq, cr, cres>>

\* ------------------------------------------------------------ the options
Cfg0 ==
    [ nsmpl_qry |-> 2, nsmpl_gt |-> 0, gt_fname |-> FALSE,
      pair_samples |-> <<>>, qry_samples |-> <<>>, gt_samples |-> <<>>,
      qry_use_GT |-> -1, gt_use_GT |-> -1,
      hom_only |-> FALSE, calc_hwe_prob |-> TRUE, ntop |-> 0, sort_by_hwe |-> FALSE,
      distinctive_sites |-> <<0, 1>>, dry_run |-> FALSE ]

P(q, g) == [iqry |-> q, igt |-> g]

\* two files, every query sample against every genotyped sample
CfgRect ==
    { [Cfg0 EXCEPT !.gt_fname = TRUE, !.nsmpl_gt = 2, !.qry_use_GT = u, !.gt_use_GT = v,
                   !.hom_only = hw[1], !.calc_hwe_prob = hw[2]] :
        u \in {-1, 1}, v \in {-1, 0},
        hw \in {<<FALSE, FALSE>>, <<FALSE, TRUE>>, <<TRUE, TRUE>>} }

\* two files and a list of pairs
CfgRectPairs ==
    { [Cfg0 EXCEPT !.gt_fname = TRUE, !.nsmpl_gt = 2, !.qry_use_GT = 1,
                   !.pair_samples = <<P(1, 0)>>, !.hom_only = h,
                   !.calc_hwe_prob = FALSE] : h \in BOOLEAN }

\* one file and a list of pairs
CfgPairs ==
    { [Cfg0 EXCEPT !.qry_use_GT = u, !.pair_samples = l, !.calc_hwe_prob = w] :
        u \in {-1, 1}, w \in BOOLEAN,
        l \in { <<P(1, 0)>>, <<P(1, 0), P(0, 1)>>, <<P(0, 1), P(0, 0), P(0, 1)>> } }

\* one file, all against all
CfgCross ==
    { [Cfg0 EXCEPT !.nsmpl_qry = 3, !.qry_use_GT = u, !.qry_samples = l,
                   !.calc_hwe_prob = w] :
        u \in {-1, 1}, w \in BOOLEAN, l \in { <<>>, <<2, 0>> } }

\* one file, its samples against a list of its samples
CfgOneFileGt ==
    { [Cfg0 EXCEPT !.qry_use_GT = u, !.gt_samples = <<1>>, !.calc_hwe_prob = FALSE] :
        u \in {-1, 1} }

\* options main_vcfgtcheck refuses, and --dry-run
CfgOther ==
    { [Cfg0 EXCEPT !.pair_samples = <<P(1, 0)>>, !.qry_samples = <<0>>],
      [Cfg0 EXCEPT !.pair_samples = <<P(1, 0)>>, !.gt_samples = <<0>>],
      [Cfg0 EXCEPT !.pair_samples = <<P(1, 0)>>, !.ntop = 1],
      [Cfg0 EXCEPT !.distinctive_sites = <<1, 1>>],
      [Cfg0 EXCEPT !.hom_only = TRUE],
      [Cfg0 EXCEPT !.qry_use_GT = 1, !.dry_run = TRUE] }

\* --n-matches -1 with --no-HWE-prob, on one file and against two genotyped
\* samples
CfgTopHwe ==
    { [Cfg0 EXCEPT !.qry_use_GT = 1, !.ntop = 1, !.sort_by_hwe = TRUE,
                   !.calc_hwe_prob = FALSE],
      [Cfg0 EXCEPT !.nsmpl_qry = 1, !.gt_fname = TRUE, !.nsmpl_gt = 2,
                   !.qry_use_GT = 1, !.ntop = 1, !.sort_by_hwe = TRUE,
                   !.calc_hwe_prob = FALSE] }

\* one query sample against one genotyped sample, and other single pairs
CfgLong ==
    { [Cfg0 EXCEPT !.nsmpl_qry = 1, !.gt_fname = TRUE, !.nsmpl_gt = 1,
                   !.qry_use_GT = u, !.gt_use_GT = v, !.hom_only = h] :
        u \in {-1, 1}, v \in {-1, 0}, h \in BOOLEAN }
    \cup { [Cfg0 EXCEPT !.qry_use_GT = u, !.pair_samples = <<P(0, 1)>>] : u \in {-1, 1} }
    \cup { [Cfg0 EXCEPT !.qry_use_GT = u] : u \in {-1, 1} }
    \cup { [Cfg0 EXCEPT !.calc_hwe_prob = FALSE] }

\* cross-check and two-file runs with and without --n-matches
CfgTri ==
    { [Cfg0 EXCEPT !.nsmpl_qry = NSmplTri, !.qry_use_GT = 1, !.ntop = k,
                   !.calc_hwe_prob = FALSE] : k \in {0, 1, 2} }
    \cup { [Cfg0 EXCEPT !.nsmpl_qry = 3, !.qry_use_GT = u, !.qry_samples = <<2, 0, 1>>,
                        !.ntop = 1, !.sort_by_hwe = TRUE] : u \in {-1, 1} }
    \cup { [Cfg0 EXCEPT !.gt_fname = TRUE, !.nsmpl_gt = 3, !.gt_samples = <<2, 0>>,
                        !.qry_use_GT = 1, !.ntop = k, !.calc_hwe_prob = FALSE] :
             k \in {0, 1} }

\* one file of three samples, two or three pairs, --distinctive-sites
CfgDS ==
    { [Cfg0 EXCEPT !.nsmpl_qry = 3, !.qry_use_GT = 1, !.calc_hwe_prob = FALSE,
                   !.pair_samples = <<P(2, 0), P(1, 0)>>,
                   !.distinctive_sites = v] :
        v \in { <<1, 1>>, <<1, 2>>, <<3, 2>>, <<7, 1>>,
                 <<1, 3>>, <<-1, 2>>, <<-3, 1>> } }
    \cup { [Cfg0 EXCEPT !.nsmpl_qry = 3, !.qry_use_GT = 1, !.calc_hwe_prob = FALSE,
                        !.pair_samples = <<P(2, 1), P(1, 0), P(2, 0)>>,
                        !.distinctive_sites = v] :
             v \in { <<1, 1>>, <<2, 1>> } }

\* --------------------------------------------------------- specifications
Init == InitRun(CfgRect \cup CfgRectPairs \cup CfgPairs \cup CfgCross
                \cup CfgOneFileGt \cup CfgOther \cup CfgTopHwe)

Stream == NextLine(GTVals, PLVals, AFVals, RandVals, MaxSites)

Next == ParseArgs \/ InitData \/ Stream \/ Report

Spec == Init /\ [][Next]_vars

\* runs of a single pair over more sites
InitLong == InitRun(CfgLong)

StreamLong == NextLine(GTValsLong, PLValsLong, AFValsLong, RandVals, MaxSitesLong)

NextLong == ParseArgs \/ InitData \/ StreamLong \/ Report

SpecLong == InitLong /\ [][NextLong]_vars

\* runs over the triangular and the row-major matrix, with --n-matches
InitTri == InitRun(CfgTri)

StreamTri == NextLine(GTVals, PLVals, AFVals, RandVals, MaxSitesTri)

NextTri == ParseArgs \/ InitData \/ StreamTri \/ Report

SpecTri == InitTri /\ [][NextTri]_vars

\* runs with --distinctive-sites
InitDS == InitRun(CfgDS)

StreamDS == NextLine(GTValsDS, PLVals, AFVals, RandVals, MaxSitesDS)

NextDS == ParseArgs \/ InitData \/ StreamDS \/ Report \/ ExtsortSort \/ DiffSitesShift

SpecDS == InitDS /\ [][NextDS]_vars

\* runs with --distinctive-sites whose sorter storage may be damaged
NextDSFault == NextDS \/ CorruptRecord

SpecDSFault == InitDS /\ [][NextDSFault]_vars


\* the four mixed comparisons of a hard call and a likelihood triple
InitCmp ==
    /\ cq \in GTValsAll
    /\ cr \in PLValsAll
    /\ cres = <<>>
    /\ pc = "cmp"
    /\ cfg = NoCfg /\ args = NoArgs
    /\ ndiff = <<>> /\ ncnt = <<>> /\ hwe_prob = <<>>
    /\ ncmp = 0 /\ nlines = 0
    /\ site = NoSite /\ bufs = <<>> /\ prev = <<>> /\ visits = <<>> /\ tally = <<>>
    /\ kbs_diff = {}
    /\ es = <<>> /\ order = <<>> /\ order2 = <<>>
    /\ drain = Drain0
    /\ dc_out = <<>> /\ ds_out = <<>>

\* the hard call as the query and the triple as the reference, and the
\* triple as the query and the hard call as the reference, without -H
Compare ==
    /\ pc = "cmp"
    /\ cres = <<>>
    /\ cres' = [ pairs_GT_PL |-> pairs_GT_PL(cq, cr, FALSE),
                 pairs_PL_GT |-> pairs_PL_GT(cr, cq, FALSE),
                 matrix_GT_PL |-> matrix_GT_PL(cq, cr, FALSE),
                 matrix_PL_GT |-> matrix_PL_GT(cr, cq, FALSE) ]
    /\ UNCHANGED <<cfg, pc, args, ndiff, ncnt, hwe_prob, ncmp, nlines, site, bufs,
                   prev, visits, tally, kbs_diff, es, order, order2, drain, dc_out,
                   ds_out, cq, cr>>

NextCmp == Compare

SpecCmp == InitCmp /\ [][NextCmp]_vars

\* the comparisons against a likelihood reference, and the dosage class of
\* a likelihood query
InitPL ==
    /\ cq \in GTValsAll \cup PLValsAll
    /\ cr \in PLValsAll
    /\ cres = <<>>
    /\ pc = "cmp_pl"
    /\ cfg = NoCfg /\ args = NoArgs
    /\ ndiff = <<>> /\ ncnt = <<>> /\ hwe_prob = <<>>
    /\ ncmp = 0 /\ nlines = 0
    /\ site = NoSite /\ bufs = <<>> /\ prev = <<>> /\ visits = <<>> /\ tally = <<>>
    /\ kbs_diff = {}
    /\ es = <<>> /\ order = <<>> /\ order2 = <<>>
    /\ drain = Drain0
    /\ dc_out = <<>> /\ ds_out = <<>>

\* a PL query against a PL reference, without and with -H, and the dosage
\* class of the query that selects the HWE score
ComparePL ==
    /\ pc = "cmp_pl"
    /\ cres = <<>>
    /\ Len(cq) = 3
    /\ cres' = [ qry |-> "PL",
                 pairs |-> pairs_PL_PL(cq, cr, FALSE),
                 matrix |-> matrix_PL_PL(cq, cr, FALSE),
                 pairs_hom |-> pairs_PL_PL(cq, cr, TRUE),
                 matrix_hom |-> matrix_PL_PL(cq, cr, TRUE),
                 pairs_dsg |-> pairs_hwe_dsg(FALSE, cq),
                 matrix_dsg |-> matrix_qry_dsg(FALSE, cq) ]
    /\ UNCHANGED <<cfg, pc, args, ndiff, ncnt, hwe_prob, ncmp, nlines, site, bufs,
                   prev, visits, tally, kbs_diff, es, order, order2, drain, dc_out,
                   ds_out, cq, cr>>

\* a GT query against a PL reference with -H
CompareHomGT ==
    /\ pc = "cmp_pl"
    /\ cres = <<>>
    /\ Len(cq) = 2
    /\ cres' = [ qry |-> "GT",
                 pairs_hom |-> pairs_GT_PL(cq, cr, TRUE),
                 matrix_hom |-> matrix_GT_PL(cq, cr, TRUE) ]
    /\ UNCHANGED <<cfg, pc, args, ndiff, ncnt, hwe_prob, ncmp, nlines, site, bufs,
                   prev, visits, tally, kbs_diff, es, order, order2, drain, dc_out,
                   ds_out, cq, cr>>

NextPL == ComparePL \/ CompareHomGT

SpecPL == InitPL /\ [][NextPL]_vars

\* ================================================================ claims

\* C1: in every mode and for every pair of tags, the mismatch count of a
\* pair never exceeds its compared count: after every line and after every
\* single per-pair update inside process_line.
C1_MismatchLeCompared ==
    /\ \A p \in DOMAIN ndiff : ndiff[p] <= ncnt[p]
    /\ \A k \in 1..Len(visits) : visits[k].ndiff <= visits[k].ncnt

\* a cross-check run in which a pair differed at both of two lines
C1_Witness ==
    /\ pc = "done"
    /\ args.cross_check
    /\ \E p \in DOMAIN ndiff : ndiff[p] = 2 /\ ncnt[p] = 2
    /\ \E k \in 1..Len(visits) : visits[k].res = "Mismatch"

\* C10: without -H, a valid hard call g and a valid likelihood triple l
\* compare the same (both Match or both Mismatch) whichever of the two is
\* the query and whichever the reference, in the explicit-pairs loops and
\* in the matrix loops alike.
C10_CallLikelihoodSymmetric ==
    (cres # <<>> /\ HAS_GT(cq) /\ HAS_PL(cr)) =>
        /\ cres.pairs_GT_PL \in {"Match", "Mismatch"}
        /\ cres.matrix_GT_PL \in {"Match", "Mismatch"}
        /\ cres.pairs_GT_PL = cres.pairs_PL_GT
        /\ cres.matrix_GT_PL = cres.matrix_PL_GT

\* a heterozygous call against a triple whose minimum is attained twice
C10_Witness ==
    /\ cres # <<>>
    /\ cq = gt_01 /\ cr = pl_tie01
    /\ cres.matrix_GT_PL = "Match" /\ cres.matrix_PL_GT = "Match"
    /\ cres.pairs_GT_PL = "Match" /\ cres.pairs_PL_GT = "Match"


\* the run is past init_data: the accumulators exist
Started == pc \in {"stream", "finish", "sort", "drain", "done", "segv"}

\* C2: after any sequence of lines, for every pair p, ncnt[p] is the number
\* of compared lines at which the comparator gave Match or Mismatch for p
\* and ndiff[p] the number at which it gave Mismatch; a line at which either
\* sample of p has no valid block changes neither counter.
C2_CountsAreSiteCounts ==
    Started =>
        /\ \A p \in DOMAIN ncnt :
              /\ ncnt[p] = tally[p].m + tally[p].x
              /\ ndiff[p] = tally[p].x
        /\ site # NoSite =>
             \A e \in IndexedPairs(args) :
                (\/ ~has_block(args.qry_use_GT, QryBlock(site, e[2]))
                 \/ ~has_block(args.gt_use_GT, RefBlock(args, site, e[3])))
                => /\ ndiff[e[1]] = prev.ndiff[e[1]]
                   /\ ncnt[e[1]] = prev.ncnt[e[1]]

\* query calls 0/0, 0/1, 1/1 against genotyped calls 0/0, 0/0, 1/1: one
\* mismatch in three compared lines
C2_Witness ==
    /\ Started
    /\ args.gt_hdr /\ args.qry_use_GT /\ args.gt_use_GT /\ ~args.hom_only
    /\ ncmp = 3
    /\ tally[0] = [m |-> 2, x |-> 1]
    /\ ndiff[0] = 1 /\ ncnt[0] = 3
    /\ site.qry_arr = <<gt_11>> /\ site.gt_arr = <<gt_11>>

\* C3: whenever a pair list is given (-p/-P), with or without -g, the run
\* is in explicit-pair mode: npairs is the number of listed entries and the
\* report has one DC line per listed entry and none for an unlisted pair.
C3_PairListMeansPairMode ==
    (Started /\ cfg.pair_samples # <<>>) =>
        /\ args.has_pairs
        /\ args.npairs = Len(cfg.pair_samples)
        /\ (pc = "done" /\ ~args.dry_run) =>
              /\ Len(dc_out) = Len(cfg.pair_samples)
              /\ \A k \in 1..Len(dc_out) :
                    \E n \in 1..Len(cfg.pair_samples) :
                        /\ dc_out[k].iqry = cfg.pair_samples[n].iqry
                        /\ dc_out[k].igt = cfg.pair_samples[n].igt

\* C4: with -H and a genotyped side read as GT, a line at which the
\* genotyped sample of a pair is heterozygous (DSG_GT = 1) changes neither
\* ndiff, ncnt nor hwe_prob of that pair, whatever the query block, in the
\* matrix loops of a run and in the explicit-pairs comparisons alike.
C4_HomOnlySkipsHetRef ==
    /\ (Started /\ site # NoSite /\ args.hom_only /\ args.gt_use_GT) =>
          \A e \in IndexedPairs(args) :
             LET bptr == RefBlock(args, site, e[3])
             IN  (HAS_GT(bptr) /\ DSG_GT(bptr) = 1) =>
                    /\ ndiff[e[1]] = prev.ndiff[e[1]]
                    /\ ncnt[e[1]] = prev.ncnt[e[1]]
                    /\ args.calc_hwe_prob => hwe_prob[e[1]] = prev.hwe_prob[e[1]]
    /\ pc = "main" =>
          \A bptr \in {gt_01, <<4, 2>>, <<2, 5>>} :
             /\ \A aptr \in GTValsAll : pairs_GT_GT(aptr, bptr, TRUE) = "NoData"
             /\ \A aptr \in PLValsAll : pairs_PL_GT(aptr, bptr, TRUE) = "NoData"

\* a compared line with -H at which one genotyped sample is heterozygous and
\* its query sample is not, while another pair of the line was counted
C4_Witness ==
    /\ Started /\ site # NoSite /\ args.hom_only /\ args.gt_use_GT
    /\ args.qry_use_GT
    /\ visits # <<>>
    /\ \E e \in IndexedPairs(args) :
          /\ RefBlock(args, site, e[3]) = gt_01
          /\ QryBlock(site, e[2]) = gt_00
          /\ ncnt[e[1]] = prev.ncnt[e[1]]
    /\ \E e \in IndexedPairs(args) : ncnt[e[1]] = prev.ncnt[e[1]] + 1


\* C5: in the matrix modes the accumulators of the pair (i, j) of sample
\* positions are at index i*(i-1)/2 + j in a cross-check (j < i) and at
\* i*ngt_smpl + j otherwise; process_line updates that index at every line,
\* also after rows it skipped for a query sample without data, and every
\* DC line of the report reads the counters of its two samples from it.
C5_PairIndexClosedForm ==
    (Started /\ ~args.has_pairs) =>
        /\ \A k \in 1..Len(visits) :
              /\ args.cross_check => visits[k].j < visits[k].i
              /\ visits[k].idx = PairIndex(args, visits[k].i, visits[k].j)
        /\ \A k \in 1..Len(dc_out) :
              /\ <<dc_out[k].idx, dc_out[k].iqry, dc_out[k].igt>> \in IndexedPairs(args)
              /\ dc_out[k].ndiff = ndiff[dc_out[k].idx]
              /\ dc_out[k].ncnt = ncnt[dc_out[k].idx]

\* a cross-check of four samples whose last line has no data for sample 1:
\* its row is skipped, the pair (3, 2) is still counted at index 5, and the
\* report printed lines
C5_Witness ==
    /\ pc = "done"
    /\ args.cross_check /\ args.nqry_smpl = 4
    /\ site # NoSite
    /\ ~HAS_GT(QryBlock(site, 1))
    /\ \E k \in 1..Len(visits) :
          visits[k].i = 3 /\ visits[k].j = 2 /\ visits[k].idx = 5
    /\ \A k \in 1..Len(visits) : visits[k].i # 1 /\ visits[k].j # 1
    /\ dc_out # <<>>
    /\ \E k \in 1..Len(dc_out) : dc_out[k].idx = 5 /\ dc_out[k].ncnt > 0


\* the drain of the sorted records is running or over
Draining == pc \in {"drain", "done"}

\* the pairs some DS line of block b newly distinguished
BlockPairs(b) ==
    UNION { ds_out[k].new : k \in { m \in 1..Len(ds_out) : ds_out[m].iblock = b } }

\* C6 (as stated): with the effective threshold equal to npairs the drain
\* writes DS lines of block 0 only.
C6_OnlyBlockZero ==
    (Draining /\ args.distinctive_sites = args.npairs) =>
        \A k \in 1..Len(ds_out) : ds_out[k].iblock = 0

\* C6 (amended): with the effective threshold equal to npairs a block is
\* closed exactly by a line whose cumulative value reaches npairs, so the
\* block id of a line is the number of earlier lines with that value (block
\* ids above 0 do occur); no cumulative value exceeds npairs; and at the end
\* block 0 has distinguished every pair that mismatched at some line.
C6_BlockClosesAtAllPairs ==
    (Draining /\ args.distinctive_sites = args.npairs) =>
        /\ \A k \in 1..Len(ds_out) :
              /\ ds_out[k].tot <= args.npairs
              /\ ds_out[k].iblock =
                    Cardinality({ m \in 1..(k - 1) : ds_out[m].tot = args.npairs })
        /\ drain.iblock =
              Cardinality({ m \in 1..Len(ds_out) : ds_out[m].tot = args.npairs })
        /\ pc = "done" => BlockPairs(0) = { p \in DOMAIN ndiff : ndiff[p] > 0 }

\* two lines of which the first distinguishes every pair: the second opens
\* block 1
C6_Witness ==
    /\ pc = "done"
    /\ args.distinctive_sites = args.npairs
    /\ Len(ds_out) = 2
    /\ ds_out[1].tot = args.npairs /\ ds_out[1].iblock = 0
    /\ ds_out[2].iblock = 1

\* C7: with the effective threshold 1 every record drained (a line at
\* which some pair mismatched) writes exactly one DS line and closes its
\* block: the k-th line has block id k-1 and counts only its own pairs, and
\* the blocks number as many as the lines with a mismatch.
C7_ThresholdOneBlocks ==
    (Draining /\ args.distinctive_sites = 1) =>
        /\ \A k \in 1..Len(es) : es[k].kbs # {}
        /\ Len(ds_out) = Len(es) - Len(order)
        /\ \A k \in 1..Len(ds_out) :
              /\ ds_out[k].iblock = k - 1
              /\ ds_out[k].new # {}
              /\ ds_out[k].tot = Cardinality(ds_out[k].new)
        /\ drain.iblock = Len(ds_out)
        /\ drain.ndiff_tot = 0 /\ drain.kbs_blk = {}
        /\ pc = "done" => drain.iblock = Len(es)

\* two lines that distinguish the same single pair, in blocks 0 and 1
C7_Witness ==
    /\ pc = "done"
    /\ args.distinctive_sites = 1
    /\ Len(ds_out) = 2
    /\ ds_out[1].iblock = 0 /\ ds_out[2].iblock = 1
    /\ ds_out[1].new = ds_out[2].new
    /\ Cardinality(ds_out[1].new) = 1

\* C8, one step: the record at the head of the sorted order, its new pairs
\* those not yet in kbs_blk: none new leaves output and state alone; else one
\* line (chromosome, position, ndiff_tot + |new|, iblock) is written, and the
\* block is closed (state reset, iblock + 1) iff that total reaches the
\* threshold.
C8_Step ==
    (pc = "drain" /\ order # <<>>) =>
        LET rec == Head(order)
            new == rec.kbs \ drain.kbs_blk
            tot == drain.ndiff_tot + Cardinality(new)
        IN  IF new = {}
            THEN /\ ds_out' = ds_out
                 /\ drain'.kbs_blk = drain.kbs_blk
                 /\ drain'.ndiff_tot = drain.ndiff_tot
                 /\ drain'.iblock = drain.iblock
            ELSE /\ Len(ds_out') = Len(ds_out) + 1
                 /\ SubSeq(ds_out', 1, Len(ds_out)) = ds_out
                 /\ LET line == ds_out'[Len(ds_out')]
                    IN  /\ line.rid = rec.rid
                        /\ line.pos = rec.pos + 1
                        /\ line.tot = tot
                        /\ line.iblock = drain.iblock
                 /\ IF tot >= args.distinctive_sites
                    THEN /\ drain'.kbs_blk = {}
                         /\ drain'.ndiff_tot = 0
                         /\ drain'.iblock = drain.iblock + 1
                    ELSE /\ drain'.kbs_blk = drain.kbs_blk \cup new
                         /\ drain'.ndiff_tot = tot
                         /\ drain'.iblock = drain.iblock

\* C8, the output: block ids start at 0 and never decrease, and inside one
\* block the cumulative value strictly increases.
C8_Shape ==
    Draining =>
        /\ ds_out # <<>> => ds_out[1].iblock = 0
        /\ \A k \in 1..Len(ds_out), m \in 1..Len(ds_out) :
              k < m => /\ ds_out[k].iblock <= ds_out[m].iblock
                       /\ ds_out[k].iblock = ds_out[m].iblock
                            => ds_out[k].tot < ds_out[m].tot

\* C8: the drain of report_distinctive_sites is the state machine over
\* (kbs_blk, ndiff_tot, iblock) of C8_Step, and its lines have the shape
\* of C8_Shape.
C8_DrainStateMachine == [][C8_Step]_vars /\ []C8_Shape

\* a drain that wrote a line for its first record and none for its second,
\* which distinguished no new pair
C8_Witness ==
    /\ pc = "done"
    /\ Len(es) = 2
    /\ Len(ds_out) = 1
    /\ drain.iblock = 0 /\ drain.ndiff_tot = 1
    /\ es[1].kbs = es[2].kbs

\* the DS lines a second run writes from the same records: those of the
\* order the sorter returns to it
SecondRun == ds_lines(Drain0, order2, args.distinctive_sites)

\* no two records pushed are equal in both ndiff and rand
NoFullTie ==
    \A k \in 1..Len(es), m \in 1..Len(es) :
        k # m => (es[k].ndiff # es[m].ndiff \/ es[k].rand # es[m].rand)

LineVal(l) ==
    IF args.sort_by_hwe THEN << -l.hwe, 1 >>
    ELSE IF l.ncnt # 0 THEN << l.ndiff, l.ncnt >>
    ELSE << 0, 1 >>

FracLe(x, y) == x[1] * y[2] <= y[1] * x[2]

\* the header index of the sample at position i of the query list
QrySmpl(i) == IF args.qry_smpl # <<>> THEN At(args.qry_smpl, i) ELSE i

\* the accumulator indices of the candidates of the query at position i:
\* every genotyped sample, or every other sample in a cross-check
Candidates(i) ==
    IF args.cross_check
    THEN { PairIndex(args, i, j) : j \in 0..(i - 1) }
         \cup { PairIndex(args, j, i) : j \in (i + 1)..(args.nqry_smpl - 1) }
    ELSE { PairIndex(args, i, j) : j \in 0..(args.ngt_smpl - 1) }

\* the DC lines of the query at position i, in output order
LinesOf(i) == SelectSeq(dc_out, LAMBDA l : l.iqry = QrySmpl(i))

\* C11: the report with --n-matches K > 0 and no pair list: with at most K
\* candidates per query every pair has its DC line; otherwise every query
\* sample has exactly K DC lines, in rank order, and no candidate left out
\* ranks better than one printed; in two-file and in cross-check runs.
C11_TopKPerQuery ==
    (pc = "done" /\ ~args.dry_run /\ ~args.has_pairs /\ args.ntop > 0) =>
        IF (IF args.cross_check THEN args.nqry_smpl - 1 ELSE args.ngt_smpl) <= args.ntop
        THEN /\ Len(dc_out) = Cardinality(IndexedPairs(args))
             /\ { <<dc_out[k].idx, dc_out[k].iqry, dc_out[k].igt>> : k \in 1..Len(dc_out) }
                   = IndexedPairs(args)
        ELSE \A i \in 0..(args.nqry_smpl - 1) :
                LET rows == LinesOf(i)
                IN  /\ Len(rows) = args.ntop
                    /\ \A k \in 1..Len(rows) : rows[k].idx \in Candidates(i)
                    /\ \A k \in 1..Len(rows), m \in 1..Len(rows) :
                          k < m => /\ rows[k].idx # rows[m].idx
                                   /\ FracLe(LineVal(rows[k]), LineVal(rows[m]))
                    /\ \A c \in Candidates(i) \ { rows[k].idx : k \in 1..Len(rows) } :
                          \A k \in 1..Len(rows) :
                             FracLe(LineVal(rows[k]),
                                    LineVal(dc_line(args, ndiff, ncnt, hwe_prob, 0, 0, c)))

\* the same for the two-file runs alone
C11_TopKTwoFiles == C11_TopKPerQuery \/ args.cross_check


\* the four combinations of options of C12
Refused(c) ==
    \/ c.pair_samples # <<>> /\ (c.qry_samples # <<>> \/ c.gt_samples # <<>>)
    \/ c.pair_samples # <<>> /\ c.ntop # 0
    \/ c.distinctive_sites[1] # 0 /\ c.pair_samples = <<>>
    \/ c.hom_only /\ ~c.gt_fname

\* C12: a pair list with a sample subset, a pair list with --n-matches,
\* --distinctive-sites without a pair list and --homs-only without -g each
\* end the run in error before init_data: no accumulator is allocated, no
\* line is read or compared, nothing is pushed and no DC or DS line written.
C12_ConfigErrorsRejected ==
    (pc # "main" /\ pc # "cmp" /\ Refused(cfg)) =>
        /\ pc = "error"
        /\ args = NoArgs
        /\ ndiff = <<>> /\ ncnt = <<>> /\ hwe_prob = <<>>
        /\ nlines = 0 /\ ncmp = 0
        /\ es = <<>>
        /\ dc_out = <<>> /\ ds_out = <<>>

\* --homs-only without -g was refused
C12_Witness ==
    /\ pc = "error"
    /\ cfg # NoCfg
    /\ cfg.hom_only /\ ~cfg.gt_fname
    /\ args = NoArgs /\ dc_out = <<>>


\* the line s has a data-shape error: the tag is absent, or its values per
\* sample are not 2 (GT) or 3 (PL), in the query or in the genotypes file
ShapeError(s) ==
    \/ s.nqry1 <= 0
    \/ s.nqry1 # (IF args.qry_use_GT THEN 2 ELSE 3) * cfg.nsmpl_qry
    \/ args.gt_hdr /\ (\/ s.ngt1 <= 0
                       \/ s.ngt1 # (IF args.gt_use_GT THEN 2 ELSE 3) * cfg.nsmpl_gt)

\* C13, one step: reading a line with a data-shape error changes no entry
\* of ndiff, ncnt, hwe_prob, not ncmp and not the records pushed, and the
\* run goes on reading.
C13_Step ==
    (pc = "stream" /\ nlines' = nlines + 1 /\ ShapeError(site')) =>
        /\ UNCHANGED <<ndiff, ncnt, hwe_prob, ncmp, es, kbs_diff>>
        /\ pc' = "stream"

\* C13: a line with a data-shape error is skipped without ending the run
\* and without any effect on the accumulators, on the number of compared
\* lines or on the sorter; later lines are still compared.
C13_ShapeErrorSkipped == [][C13_Step]_vars

\* one file: the first line was skipped for its shape, the second compared
C13_Witness ==
    /\ pc = "stream"
    /\ ~args.gt_hdr
    /\ nlines = 2 /\ ncmp = 1
    /\ ~ShapeError(site)
    /\ \E p \in DOMAIN ncnt : ncnt[p] = 1


\* C14, one step: the drain pops a record whose bitset does not have as
\* many bits as its ndiff says: the run ends in error, the sorter is
\* destroyed and holds no record, and no DS line is written for the record.
C14_Step ==
    /\ (pc = "drain" /\ order # <<>>
          /\ Cardinality(Head(order).kbs) # Head(order).ndiff) =>
          /\ pc' = "error"
          /\ ds_out' = ds_out
          /\ es' = <<>> /\ order' = <<>>
    /\ pc = "error" => (pc' = "error" /\ ds_out' = ds_out /\ order' = order)

\* C14: a popped record whose recounted bits differ from its ndiff is
\* fatal: the sorter is destroyed before the exit, neither that record nor
\* a later one gets a DS line, and the drain is not entered again.
C14_CorruptionIsFatal == [][C14_Step]_vars

\* the first record drained wrote its line, the second was found damaged:
\* the run ended in error with one DS line and an empty sorter
C14_Witness ==
    /\ pc = "error"
    /\ nlines = MaxSitesDS
    /\ Len(ds_out) = 1
    /\ es = <<>> /\ order = <<>>
    /\ Len(order2) = 2


\* the triple t has its least value at index k (0, 1 or 2)
MinAt(t, k) == \A m \in 1..3 : t[k + 1] <= t[m]

\* the lowest and the highest index at which the triple has its least value
LowestMinIndex(t) == CHOOSE k \in 0..2 : MinAt(t, k) /\ \A m \in 0..(k - 1) : ~MinAt(t, m)

HighestMinIndex(t) == CHOOSE k \in 0..2 : MinAt(t, k) /\ \A m \in (k + 1)..2 : ~MinAt(t, m)

\* the query block of a comparison of SpecPL is valid
QryValid == IF cres.qry = "PL" THEN HAS_PL(cq) ELSE HAS_GT(cq)

\* C15 as stated: with -H and a PL reference, the comparison of two valid
\* blocks is NoData exactly when the least value of the reference triple is
\* first attained at index 1.
C15_HomFilterLowestIndex ==
    (pc = "cmp_pl" /\ cres # <<>> /\ QryValid /\ HAS_PL(cr)) =>
        /\ cres.matrix_hom = "NoData" <=> LowestMinIndex(cr) = 1
        /\ cres.pairs_hom = "NoData" <=> LowestMinIndex(cr) = 1

\* C15, as the code has it: with -H and a PL reference, the comparison of
\* two valid blocks is NoData exactly when the reference triple has its least
\* value at index 1, whether or not another index has it too.
C15_HomFilterMinAtOne ==
    (pc = "cmp_pl" /\ cres # <<>> /\ QryValid /\ HAS_PL(cr)) =>
        /\ cres.matrix_hom = "NoData" <=> MinAt(cr, 1)
        /\ cres.pairs_hom = "NoData" <=> MinAt(cr, 1)

\* a homozygous call against the reference triple [0,0,5] is filtered
C15_Witness ==
    /\ pc = "cmp_pl" /\ cres # <<>>
    /\ cq = gt_00 /\ cr = pl_tie01
    /\ cres.matrix_hom = "NoData"


\* the indices the loops of process_line give to the pairs they enumerate
PairIndices == { e[1] : e \in IndexedPairs(args) }

\* C16 as stated: in every mode npairs is the number of pairs enumerated at
\* a line, and every index below npairs belongs to an enumerated pair.
C16_NPairsIsEnumerated ==
    Started =>
        /\ Cardinality(IndexedPairs(args)) = args.npairs
        /\ PairIndices = 0..(args.npairs - 1)

\* C16, as the code has it: the enumerated pairs have distinct indices
\* below npairs; with a pair list npairs is its length and with two sample
\* sets it is nqry_smpl * ngt_smpl, and every index is used; in a
\* cross-check of n samples npairs is n(n+1)/2 while the pairs enumerated
\* are the n(n-1)/2 below the diagonal, which fill the indices below
\* n(n-1)/2, and the n slots above them are never counted.
C16_PairsWithinAllocated ==
    Started =>
        LET n == args.nqry_smpl
            used == IF args.cross_check THEN (n * (n - 1)) \div 2 ELSE args.npairs
        IN  /\ DOMAIN ndiff = 0..(args.npairs - 1)
            /\ DOMAIN ncnt = 0..(args.npairs - 1)
            /\ kbs_diff \subseteq 0..(args.npairs - 1)
            /\ Cardinality(PairIndices) = Cardinality(IndexedPairs(args))
            /\ PairIndices = 0..(used - 1)
            /\ args.npairs =
                 IF args.has_pairs THEN Len(args.pairs)
                 ELSE IF args.cross_check THEN used + n
                 ELSE n * args.ngt_smpl
            /\ \A k \in 1..Len(visits) : visits[k].idx \in PairIndices
            /\ \A p \in used..(args.npairs - 1) : ndiff[p] = 0 /\ ncnt[p] = 0

\* a finished cross-check of at least two samples: the pair of the last
\* enumerated index was compared, and the slots above it exist and are zero
C16_Witness ==
    /\ pc = "done"
    /\ args.cross_check
    /\ args.nqry_smpl >= 2
    /\ args.npairs = (args.nqry_smpl * (args.nqry_smpl + 1)) \div 2
    /\ ncnt[args.npairs - args.nqry_smpl - 1] > 0
    /\ ncnt[args.npairs - 1] = 0


\* C17 as stated: the dosage class of a valid likelihood triple is the
\* lowest index at which the triple has its least value.
C17_DosageLowestIndex ==
    (pc = "cmp_pl" /\ cres # <<>> /\ cres.qry = "PL" /\ HAS_PL(cq)) =>
        /\ cres.matrix_dsg = LowestMinIndex(cq)
        /\ cres.pairs_dsg = LowestMinIndex(cq)

\* C17, as the code has it: the dosage class of a valid likelihood triple,
\* which selects the HWE score of a likelihood query, is the highest index
\* at which the triple has its least value.
C17_DosageHighestIndex ==
    (pc = "cmp_pl" /\ cres # <<>> /\ cres.qry = "PL" /\ HAS_PL(cq)) =>
        /\ cres.matrix_dsg = HighestMinIndex(cq)
        /\ cres.pairs_dsg = HighestMinIndex(cq)
        /\ MinAt(cq, cres.matrix_dsg)

\* the triple [0,0,5] as the query: its dosage class is 1
C17_Witness ==
    /\ pc = "cmp_pl" /\ cres # <<>>
    /\ cq = pl_tie01
    /\ cres.qry = "PL"
    /\ cres.matrix_dsg = 1 /\ cres.pairs_dsg = 1


\* the four results of a comparison of SpecCmp
MixedResults ==
    {cres.pairs_GT_PL, cres.pairs_PL_GT, cres.matrix_GT_PL, cres.matrix_PL_GT}

\* C18 as stated: without -H, a valid hard call against a valid likelihood
\* triple, in either order, is a Match exactly when the lowest index of the
\* triple's least value is the dosage of the call, and a Mismatch otherwise.
C18_MatchIffLowestIndex ==
    (pc = "cmp" /\ cres # <<>> /\ HAS_GT(cq) /\ HAS_PL(cr)) =>
        MixedResults =
            {IF LowestMinIndex(cr) = DSG_GT(cq) THEN "Match" ELSE "Mismatch"}

\* C18, as the code has it: without -H, a valid hard call against a valid
\* likelihood triple, in either order, is a Match exactly when the triple
\* has its least value at the index equal to the dosage of the call,
\* whether or not another index has it too, and a Mismatch otherwise.
C18_MatchIffMinAtDosage ==
    (pc = "cmp" /\ cres # <<>> /\ HAS_GT(cq) /\ HAS_PL(cr)) =>
        MixedResults =
            {IF MinAt(cr, DSG_GT(cq)) THEN "Match" ELSE "Mismatch"}

\* an alt-homozygous call against the triple [3,0,0] is a Match
C18_Witness ==
    /\ pc = "cmp" /\ cres # <<>>
    /\ cq = gt_11 /\ cr = <<3, 0, 0>>
    /\ MixedResults = {"Match"}


\* C19: without -H, two valid likelihood triples are a Match exactly when
\* some index k has the least value of both triples, and a Mismatch
\* otherwise; the loop over the pair list and the loop over the matrix give
\* the same result.
C19_MatchIffCommonMinIndex ==
    (pc = "cmp_pl" /\ cres # <<>> /\ cres.qry = "PL"
       /\ HAS_PL(cq) /\ HAS_PL(cr)) =>
        /\ cres.pairs = cres.matrix
        /\ cres.matrix =
             IF \E k \in 0..2 : MinAt(cq, k) /\ MinAt(cr, k)
             THEN "Match" ELSE "Mismatch"

\* [0,0,5] against [0,3,3]: the dosage classes are 1 and 0, and index 0 has
\* the least value of both
C19_Witness ==
    /\ pc = "cmp_pl" /\ cres # <<>>
    /\ cq = pl_tie01 /\ cr = <<0, 3, 3>>
    /\ cres.pairs = "Match" /\ cres.matrix = "Match"
    /\ cres.matrix_dsg # DSG_PL(cr)


\* the last line read was not compared: it is not in both files, or it has
\* a data-shape error
Skipped(s) == (args.gt_hdr /\ s.ret # 2) \/ ShapeError(s)

\* the dosage class of the query block of the pair: the number of alternate
\* alleles of a call, the index of the least value of a triple (the highest
\* such index if several have it)
QryDosage(s, iqry) ==
    IF args.qry_use_GT THEN DSG_GT(QryBlock(s, iqry))
    ELSE HighestMinIndex(QryBlock(s, iqry))

\* C20: at every line read, hwe_prob[p] grows by hwe[d], d being the dosage
\* class of the query block of p, if the scores are computed, the line was
\* compared and the comparator's result for p is Match; in every other case
\* (Mismatch, NoData, a line not compared) it is unchanged, and without the
\* scores there is no hwe_prob at all.
C20_HweAddedOnMatchOnly ==
    (Started /\ site # NoSite) =>
        IF ~args.calc_hwe_prob
        THEN hwe_prob = <<>> /\ prev.hwe_prob = <<>>
        ELSE \A e \in IndexedPairs(args) :
                hwe_prob[e[1]] =
                    IF ~Skipped(site) /\ SiteResult(args, site, e[2], e[3]) = "Match"
                    THEN prev.hwe_prob[e[1]] + hwe_of(site.af)[QryDosage(site, e[2]) + 1]
                    ELSE prev.hwe_prob[e[1]]

\* a cross-check of likelihoods at a line of allele frequency 0: the query
\* triple [0,0,5] matches the triple [0,3,6] and adds the score of dosage 1
C20_Witness ==
    /\ Started /\ site # NoSite
    /\ args.calc_hwe_prob /\ args.cross_check /\ ~args.qry_use_GT
    /\ ~Skipped(site)
    /\ site.af = 0
    /\ site.qry_arr = <<pl_0, pl_tie01>>
    /\ SiteResult(args, site, 1, 0) = "Match"
    /\ hwe_prob[0] = prev.hwe_prob[0] + 6216


\* the indices of the pairs whose comparison at the line s is a Mismatch
MismatchPairs(s) ==
    { e[1] : e \in { f \in IndexedPairs(args) :
                        SiteResult(args, s, f[2], f[3]) = "Mismatch" } }

\* C21, one step: after a compared line the bitset holds exactly the pairs
\* that are a Mismatch at that line, whatever it held before; a record is
\* pushed exactly if the bitset is not empty, and the record has the
\* bitset, its number of bits as ndiff, and the line's rid and pos.
C21_Step ==
    (pc = "stream" /\ nlines' = nlines + 1 /\ args.kbs_on /\ ~Skipped(site')) =>
        /\ kbs_diff' = MismatchPairs(site')
        /\ kbs_diff' = {} => es' = es
        /\ kbs_diff' # {} =>
              es' = Append(es, [ ndiff |-> Cardinality(kbs_diff'),
                                 rid |-> site'.rid, pos |-> site'.pos,
                                 rand |-> site'.rand, kbs |-> kbs_diff' ])

\* every record the sorter holds or hands back has a bitset that is not
\* empty and whose number of bits is its ndiff, and the drain never finds
\* a record corrupt
C21_Records ==
    /\ \A k \in 1..Len(es) :
          es[k].kbs # {} /\ es[k].ndiff = Cardinality(es[k].kbs)
    /\ \A k \in 1..Len(order) : order[k].ndiff = Cardinality(order[k].kbs)
    /\ ~drain.corrupt
    /\ pc = "error" => nlines = 0

\* C21: in the runs with --distinctive-sites, each compared line builds its
\* bitset afresh from the Mismatch results of that line, pushes a record
\* exactly if some pair is a Mismatch, with ndiff the number of bits; so
\* with a sorter that returns the records as pushed the drain's test of
\* ndiff never fails.
C21_FreshBitsetPerSite == [][C21_Step]_vars /\ []C21_Records

\* two compared lines pushed records with disjoint bitsets: the bits of the
\* first line are not in the bitset after the second
C21_Witness ==
    /\ pc = "stream"
    /\ Len(es) = 2
    /\ es[1].kbs # {} /\ es[2].kbs # {}
    /\ es[1].kbs \cap es[2].kbs = {}
    /\ kbs_diff = es[2].kbs


\* r1 ranks before r2 or beside it: more discordant pairs, or as many and a
\* rand that is not larger
RankedBefore(r1, r2) ==
    \/ r1.ndiff > r2.ndiff
    \/ r1.ndiff = r2.ndiff /\ r1.rand <= r2.rand

\* records to compare: three values of ndiff and of rand, two of pos and of
\* the bitset
CmpRecords ==
    [ ndiff : 1..3, rid : {0}, pos : {0, 1}, rand : 0..2, kbs : {{0}, {1}} ]

\* diff_sites_cmp is a total preorder on the records, and two records equal
\* in ndiff and rand compare alike with every record
C22_CmpIsPreorder ==
    \A a \in CmpRecords, b \in CmpRecords :
        /\ diff_sites_cmp(a, b) = 0 - diff_sites_cmp(b, a)
        /\ diff_sites_cmp(a, b) <= 0 <=> RankedBefore(a, b)
        /\ \A c \in CmpRecords :
              /\ (diff_sites_cmp(a, b) <= 0 /\ diff_sites_cmp(b, c) <= 0)
                    => diff_sites_cmp(a, c) <= 0
              /\ (a.ndiff = c.ndiff /\ a.rand = c.rand)
                    => /\ diff_sites_cmp(a, b) = diff_sites_cmp(c, b)
                       /\ diff_sites_cmp(b, a) = diff_sites_cmp(b, c)

\* the records still to be popped are in rank order, each before all the
\* later ones, and they are records that were pushed
C22_Ranked ==
    /\ pc = "main" => C22_CmpIsPreorder
    /\ pc = "drain" =>
          /\ \A k \in 1..Len(order), m \in 1..Len(order) :
                k < m => RankedBefore(order[k], order[m])
          /\ \A k \in 1..Len(order) : \E m \in 1..Len(es) : order[k] = es[m]

\* one iteration of the drain pops the first of the records still to come
C22_Step ==
    (pc = "drain" /\ order # <<>>) =>
        /\ order' = Tail(order)
        /\ kbs_diff' = Head(order).kbs

\* C22: the drain pops the records in rank order: of two records the one
\* popped first has the larger ndiff, or the same ndiff and a rand that is
\* not larger; diff_sites_cmp is a total preorder that looks at ndiff and
\* rand only.
C22_DrainInRankOrder == []C22_Ranked /\ [][C22_Step]_vars

\* two records of the same ndiff were pushed with the larger rand first:
\* the first DS line is that of the second record
C22_Witness ==
    /\ pc = "done"
    /\ Len(es) = 2
    /\ es[1].ndiff = es[2].ndiff /\ es[1].rand > es[2].rand
    /\ ds_out # <<>>
    /\ ds_out[1].pos = es[2].pos + 1


\* the threshold the option value v[1]/v[2] stands for among n pairs, before
\* it is limited to n: the part floor(n * v) if v <= 1, else floor(v)
RawThreshold(n, v) ==
    IF v[1] <= v[2] THEN (n * v[1]) \div v[2] ELSE v[1] \div v[2]

RefArr(s) == IF args.gt_hdr THEN s.gt_arr ELSE s.qry_arr

\* the matrix loops reach the reference sample k of the line s with a query
\* sample that has data, and find k without data
Marked(s, k) ==
    /\ ~args.has_pairs
    /\ ~has_block(args.gt_use_GT, RefBlock(args, s, k))
    /\ \E e \in IndexedPairs(args) :
          e[3] = k /\ has_block(args.qry_use_GT, QryBlock(s, e[2]))

\* the reference array after the line s, if only the blocks of Marked are
\* written, with the missing value at their first element
RefArrAfter(s) ==
    [ k \in 1..Len(RefArr(s)) |->
        IF Marked(s, k - 1)
        THEN [RefArr(s)[k] EXCEPT
                ![1] = IF args.gt_use_GT THEN bcf_gt_missing ELSE bcf_int32_missing]
        ELSE RefArr(s)[k] ]

\* C24 as stated: after a line the two arrays are as the variant source
\* gave them, in every mode.
C24_BuffersUnchanged ==
    (Started /\ site # NoSite) =>
        /\ bufs.qry_arr = site.qry_arr
        /\ args.gt_hdr => bufs.gt_arr = site.gt_arr

\* C24, as the code has it: the loops over a pair list write to no block;
\* the matrix loops write to no block that has data, and to a reference
\* block without data they write the missing value at its first element
\* when a query sample with data is compared with it, which leaves the
\* block without data; in a cross-check the array written is the query
\* array itself.
C24_OnlyInvalidRefMarked ==
    (Started /\ site # NoSite) =>
        IF Skipped(site)
        THEN bufs.qry_arr = site.qry_arr /\ bufs.gt_arr = site.gt_arr
        ELSE /\ args.has_pairs => bufs.qry_arr = site.qry_arr
             /\ args.gt_hdr => /\ bufs.qry_arr = site.qry_arr
                               /\ bufs.gt_arr = RefArrAfter(site)
             /\ ~args.gt_hdr => bufs.qry_arr = RefArrAfter(site)
             /\ \A k \in 1..Len(bufs.qry_arr) :
                   has_block(args.qry_use_GT, bufs.qry_arr[k])
                      <=> has_block(args.qry_use_GT, site.qry_arr[k])
             /\ \A k \in 1..Len(bufs.gt_arr) :
                   has_block(args.gt_use_GT, bufs.gt_arr[k])
                      <=> has_block(args.gt_use_GT, site.gt_arr[k])

\* a cross-check of calls in which sample 0 is haploid and sample 1 has
\* data: the first element of sample 0 in the query array is now missing
C24_Witness ==
    /\ Started /\ site # NoSite
    /\ args.cross_check /\ args.qry_use_GT
    /\ ~Skipped(site)
    /\ site.qry_arr[1] = gt_hap
    /\ HAS_GT(site.qry_arr[2])
    /\ bufs.qry_arr[1] = <<bcf_gt_missing, bcf_int32_vector_end>>


\* the pairs newly distinguished by the DS lines of the block of line k, up
\* to and including line k
BlockPairsUpTo(k) ==
    UNION { ds_out[m].new :
              m \in { n \in 1..k : ds_out[n].iblock = ds_out[k].iblock } }

\* C25: between the iterations of the drain, the running total of the block
\* is the number of pairs in the block's bitset, so it lies in 0..npairs and
\* counts no pair twice: the total on every DS line is the number of pairs
\* its block has distinguished so far; after a DS line that leaves the
\* block open the total is the one on the line and lies in 1..threshold-1.
C25_TotalIsBlockPopcount ==
    Draining =>
        /\ drain.ndiff_tot = Cardinality(drain.kbs_blk)
        /\ drain.kbs_blk \subseteq 0..(args.npairs - 1)
        /\ 0 <= drain.ndiff_tot /\ drain.ndiff_tot <= args.npairs
        /\ \A k \in 1..Len(ds_out) :
              /\ ds_out[k].tot = Cardinality(BlockPairsUpTo(k))
              /\ ds_out[k].tot <= args.npairs
        /\ (drain.line # <<>> /\ drain.line[1].iblock = drain.iblock) =>
              /\ drain.line[1].tot = drain.ndiff_tot
              /\ 1 <= drain.ndiff_tot
              /\ drain.ndiff_tot < args.distinctive_sites

\* three pairs and the threshold 3: the first record left the block open
\* with a total of 2, the second shares a pair with it and adds one
C25_Witness ==
    /\ Draining
    /\ args.npairs = 3 /\ args.distinctive_sites = 3
    /\ Len(ds_out) = 2
    /\ ds_out[1].tot = 2 /\ ds_out[1].iblock = 0
    /\ ds_out[2].tot = 3 /\ ds_out[2].iblock = 0
    /\ Cardinality(ds_out[2].new) = 1
    /\ \A k \in 1..Len(es) : Cardinality(es[k].kbs) = 2


\* C26: report reads hwe_prob only if init_data allocated it: no run that
\* main_vcfgtcheck accepts, --n-matches with a negative count and
\* --no-HWE-prob included, gets to a read of hwe_prob through the null
\* pointer.
C26_HweReadOnlyIfAllocated == pc # "segv"

====
